---- MODULE Spec2Model ----
(***************************************************************************)
(* Model of the media renamer: the filename parser (parser.py), the        *)
(* catalog client contract (tmdb_client.py), the scan handler              *)
(* App.scan_folder with App.get_new_name, and the executor                 *)
(* App.rename_files (main.py).                                             *)
(*                                                                         *)
(* Strings are sequences of one-character strings, so that splitting,      *)
(* matching, formatting and parsing are computed character by character.   *)
(* An optional value (Python None or a value) is a sequence of length 0    *)
(* or 1.                                                                   *)
(***************************************************************************)
EXTENDS Integers, Sequences, FiniteSets, TLC

VARIABLES
    disk,                \* the file system
    dir_entry,           \* self.dir_entry: base name of the selected root ("" = <<>>)
    api_key_entry,       \* self.api_key_entry text
    api_key,             \* self.api_key
    client,              \* the key self.client was built with
    catalog,             \* the remote catalog the client queries
    folder_preview_list, \* self.folder_preview_list
    file_preview_list,   \* self.file_preview_list
    orig_text,           \* self.orig_text, the "Original" preview column (lines)
    new_text,            \* self.new_text, the "New" preview column (lines)
    lastScan,            \* what the last scan_folder call did
    lastApply,           \* what the last rename_files call did
    nops                 \* number of user actions so far

vars == <<disk, dir_entry, api_key_entry, api_key, client, catalog,
          folder_preview_list, file_preview_list, orig_text, new_text, lastScan,
          lastApply, nops>>

(***************************************************************************)
(* Bounds of the model.                                                    *)
(***************************************************************************)
\* user actions in one run of the application: the key entry retyped, Save
\* (save_config), Scan (scan_folder) and Rename (rename_files) pressed
MaxOps == 3

\* renames the environment refuses within one rename_files call
MaxRefused == 1

(***************************************************************************)
(* Characters and strings.                                                 *)
(***************************************************************************)
\* The patterns are str patterns: \d, \w and \s are the Unicode classes.
\* The characters of this module are those of U+0000 to U+00FF (the file is
\* UTF-8 text), and the classes below list all their members in that range.
\* In it no character above ASCII is a \d digit, and (?i) matches no
\* character above ASCII with "S", "E", "p" or "k".
\* \d of the regular expressions, the digits int() reads
Digits == {"0", "1", "2", "3", "4", "5", "6", "7", "8", "9"}

\* the characters of \w that are neither \d digits nor "_": the letters,
\* and above ASCII also the numerics that are no decimal digits (U+00B2,
\* U+00B3, U+00B9, U+00BC to U+00BE)
Letters ==
    {"a", "b", "c", "d", "e", "f", "g", "h", "i", "j", "k", "l", "m",
     "n", "o", "p", "q", "r", "s", "t", "u", "v", "w", "x", "y", "z",
     "A", "B", "C", "D", "E", "F", "G", "H", "I", "J", "K", "L", "M",
     "N", "O", "P", "Q", "R", "S", "T", "U", "V", "W", "X", "Y", "Z",
     "ª", "²", "³", "µ", "¹", "º", "¼", "½", "¾", "À", "Á", "Â", "Ã",
     "Ä", "Å", "Æ", "Ç", "È", "É", "Ê", "Ë", "Ì", "Í", "Î", "Ï", "Ð",
     "Ñ", "Ò", "Ó", "Ô", "Õ", "Ö", "Ø", "Ù", "Ú", "Û", "Ü", "Ý", "Þ",
     "ß", "à", "á", "â", "ã", "ä", "å", "æ", "ç", "è", "é", "ê", "ë",
     "ì", "í", "î", "ï", "ð", "ñ", "ò", "ó", "ô", "õ", "ö", "ø", "ù",
     "ú", "û", "ü", "ý", "þ", "ÿ"}

\* \w of the regular expressions
WordChars == Letters \cup Digits \cup {"_"}

\* \s of the regular expressions, the characters str.strip() removes: tab,
\* line feed, vertical tab, form feed, carriage return, U+001C to U+001F,
\* space, U+0085 and the no-break space U+00A0
Whitespace ==
    {"\t", "\n", "", "\f", "\r", "", "", "", "", " ", "", " "}

None == <<>>

Some(x) == <<x>>

DigitVal(c) ==
    CASE c = "0" -> 0 [] c = "1" -> 1 [] c = "2" -> 2 [] c = "3" -> 3
      [] c = "4" -> 4 [] c = "5" -> 5 [] c = "6" -> 6 [] c = "7" -> 7
      [] c = "8" -> 8 [] c = "9" -> 9

DigitChar(d) ==
    CASE d = 0 -> "0" [] d = 1 -> "1" [] d = 2 -> "2" [] d = 3 -> "3"
      [] d = 4 -> "4" [] d = 5 -> "5" [] d = 6 -> "6" [] d = 7 -> "7"
      [] d = 8 -> "8" [] d = 9 -> "9"

\* int(s) for a string of decimal digits
RECURSIVE ToInt(_)
ToInt(s) ==
    IF Len(s) = 0 THEN 0
    ELSE 10 * ToInt(SubSeq(s, 1, Len(s) - 1)) + DigitVal(s[Len(s)])

\* str(n) for n >= 0
RECURSIVE IntToStr(_)
IntToStr(n) ==
    IF n < 10 THEN <<DigitChar(n)>>
    ELSE IntToStr(n \div 10) \o <<DigitChar(n % 10)>>

\* f"{n:02}": decimal, zero-padded to a width of at least 2
Pad2(n) == IF n < 10 THEN <<"0">> \o IntToStr(n) ELSE IntToStr(n)

\* s[:n]
Take(s, n) == SubSeq(s, 1, IF n < Len(s) THEN n ELSE Len(s))

\* s[n+1:]
Drop(s, n) == SubSeq(s, n + 1, Len(s))

IsPrefix(p, s) == Len(p) <= Len(s) /\ SubSeq(s, 1, Len(p)) = p

\* the positions of s holding character c
Positions(s, c) == {i \in 1..Len(s) : s[i] = c}

Max(S) == CHOOSE x \in S : \A y \in S : y <= x

Min(S) == CHOOSE x \in S : \A y \in S : x <= y

\* str.strip(): leading and trailing whitespace removed
Strip(s) ==
    LET keep == {i \in 1..Len(s) : s[i] \notin Whitespace}
    IN  IF keep = {} THEN <<>> ELSE SubSeq(s, Min(keep), Max(keep))

\* str.replace('.', ' ')
DotsToSpaces(s) == [i \in 1..Len(s) |-> IF s[i] = "." THEN " " ELSE s[i]]

\* ' '.join(parts)
RECURSIVE JoinWith(_, _)
JoinWith(parts, sep) ==
    IF Len(parts) = 0 THEN <<>>
    ELSE IF Len(parts) = 1 THEN parts[1]
    ELSE parts[1] \o sep \o JoinWith(Tail(parts), sep)

\* str.split(sep) for a one-character separator
RECURSIVE SplitOn(_, _)
SplitOn(s, c) ==
    LET at == Positions(s, c)
    IN  IF at = {} THEN <<s>>
        ELSE <<SubSeq(s, 1, Min(at) - 1)>> \o SplitOn(Drop(s, Min(at)), c)

\* os.path.splitext for a name without a directory part: the extension
\* starts at the last dot, unless only dots precede that dot.
splitext(p) ==
    LET dots == Positions(p, ".")
    IN  IF dots = {} THEN <<p, <<>>>>
        ELSE LET d == Max(dots)
             IN  IF \E i \in 1..(d - 1) : p[i] # "."
                 THEN <<SubSeq(p, 1, d - 1), SubSeq(p, d, Len(p))>>
                 ELSE <<p, <<>>>>

\* re.split(r'[.\s]+', name): the pieces between maximal runs of dots and
\* whitespace; a run at either end leaves an empty piece there.
IsSplitChar(c) == c = "." \/ c \in Whitespace

RECURSIVE ReSplit(_)
ReSplit(name) ==
    LET seps == {i \in 1..Len(name) : IsSplitChar(name[i])}
    IN  IF seps = {} THEN <<name>>
        ELSE LET b == Min(seps)
                 rest == {i \in b..Len(name) : ~IsSplitChar(name[i])}
             IN  IF rest = {} THEN <<SubSeq(name, 1, b - 1), <<>>>>
                 ELSE <<SubSeq(name, 1, b - 1)>> \o ReSplit(Drop(name, Min(rest) - 1))

\* re.fullmatch(r'(19\d{2}|20\d{2})', token)
IsYearToken(t) ==
    /\ Len(t) = 4
    /\ \/ (t[1] = "1" /\ t[2] = "9")
       \/ (t[1] = "2" /\ t[2] = "0")
    /\ t[3] \in Digits
    /\ t[4] \in Digits

\* re.fullmatch(r'(?:\d{3,4}p|4k)', token, re.IGNORECASE)
IsResolutionToken(t) ==
    \/ /\ Len(t) \in {4, 5}
       /\ \A i \in 1..(Len(t) - 1) : t[i] \in Digits
       /\ t[Len(t)] \in {"p", "P"}
    \/ /\ Len(t) = 2
       /\ t[1] = "4"
       /\ t[2] \in {"k", "K"}

\* lines 28-38 of parse_movie, for the tokens and the positions of the
\* tokens that are years
MovieOf(parts, years) ==
    IF years # {}
    THEN Some([title |-> JoinWith(SubSeq(parts, 1, Min(years) - 1), <<" ">>),
               year |-> Some(ToInt(parts[Min(years)]))])
    ELSE IF Len(parts) >= 2 /\ IsResolutionToken(parts[2])
    THEN Some([title |-> parts[1], year |-> None])
    ELSE None

MovieOfParts(parts) == MovieOf(parts, {i \in 1..Len(parts) : IsYearToken(parts[i])})

\* parser.parse_movie
parse_movie(filename) == MovieOfParts(ReSplit(splitext(filename)[1]))

\* [\W_]
IsTvSeparator(c) == c \notin WordChars \/ c = "_"

\* S(\d{1,2})E(\d{2}) matched case-insensitively at position m of name,
\* with nd season digits
MarkerAt(name, m, nd) ==
    /\ m + nd + 3 <= Len(name)
    /\ name[m] \in {"S", "s"}
    /\ \A i \in (m + 1)..(m + nd) : name[i] \in Digits
    /\ name[m + nd + 1] \in {"E", "e"}
    /\ name[m + nd + 2] \in Digits
    /\ name[m + nd + 3] \in Digits

\* the first place from which name has no line break up to place j: the
\* "." of the pattern matches every character but "\n"
ShowStart(name, j) == Max({0} \cup {i \in 1..j : name[i] = "\n"}) + 1

\* The matches of (?P<show>.+?)[\W_]+S(?P<season>\d{1,2})E(?P<episode>\d{2})
\* with the earliest start for their show name: <<s, j, m, nd>> with the
\* show name filling s..j, the separators j+1..m-1 and the marker starting
\* at m with nd season digits.
TvMatches(name) ==
    UNION {{<<ShowStart(name, j), j, mn[1], mn[2]>> :
               j \in {k \in 1..(mn[1] - 2) :
                          /\ name[k] # "\n"
                          /\ \A i \in (k + 1)..(mn[1] - 1) : IsTvSeparator(name[i])}} :
           mn \in {x \in (1..Len(name)) \X {1, 2} : MarkerAt(name, x[1], x[2])}}

\* the groups of the match <<s, j, m, nd>>
TvOfMatch(name, t) ==
    Some([show |-> Strip(DotsToSpaces(SubSeq(name, t[1], t[2]))),
          season |-> ToInt(SubSeq(name, t[3] + 1, t[3] + t[4])),
          episode |-> ToInt(SubSeq(name, t[3] + t[4] + 2, t[3] + t[4] + 3))])

\* re.search takes the leftmost match, the lazy show name is the shortest
\* one, the season takes two digits when it can
TvOfMatches(name, ms) ==
    IF ms = {} THEN None
    ELSE TvOfMatch(name, CHOOSE t \in ms :
                             \A u \in ms :
                                 \/ t[1] < u[1]
                                 \/ t[1] = u[1] /\ t[2] < u[2]
                                 \/ t[1] = u[1] /\ t[2] = u[2] /\ t[4] >= u[4])

TvOfName(name) == TvOfMatches(name, TvMatches(name))

\* parser.parse_tv
parse_tv(filename) == TvOfName(splitext(filename)[1])

(***************************************************************************)
(* The catalog client (tmdb_client.py).  The provider is a table: a query  *)
(* title has the ranked result list the provider returns for it (no entry: *)
(* an empty result set).  A movie result is [title, release_date, id], a   *)
(* show result is [name, first_air_date, id]; title and name are optional  *)
(* (the key may be missing), a date is a string that may be empty.         *)
(***************************************************************************)
\* str.lower() of one character: the capitals A to Z and U+00C0 to U+00DE
\* (but the sign U+00D7) have a small letter, every other character stays
Lower(c) ==
    CASE c = "A" -> "a" [] c = "B" -> "b" [] c = "C" -> "c" [] c = "D" -> "d"
      [] c = "E" -> "e" [] c = "F" -> "f" [] c = "G" -> "g" [] c = "H" -> "h"
      [] c = "I" -> "i" [] c = "J" -> "j" [] c = "K" -> "k" [] c = "L" -> "l"
      [] c = "M" -> "m" [] c = "N" -> "n" [] c = "O" -> "o" [] c = "P" -> "p"
      [] c = "Q" -> "q" [] c = "R" -> "r" [] c = "S" -> "s" [] c = "T" -> "t"
      [] c = "U" -> "u" [] c = "V" -> "v" [] c = "W" -> "w" [] c = "X" -> "x"
      [] c = "Y" -> "y" [] c = "Z" -> "z"
      [] c = "À" -> "à" [] c = "Á" -> "á" [] c = "Â" -> "â" [] c = "Ã" -> "ã"
      [] c = "Ä" -> "ä" [] c = "Å" -> "å" [] c = "Æ" -> "æ" [] c = "Ç" -> "ç"
      [] c = "È" -> "è" [] c = "É" -> "é" [] c = "Ê" -> "ê" [] c = "Ë" -> "ë"
      [] c = "Ì" -> "ì" [] c = "Í" -> "í" [] c = "Î" -> "î" [] c = "Ï" -> "ï"
      [] c = "Ð" -> "ð" [] c = "Ñ" -> "ñ" [] c = "Ò" -> "ò" [] c = "Ó" -> "ó"
      [] c = "Ô" -> "ô" [] c = "Õ" -> "õ" [] c = "Ö" -> "ö" [] c = "Ø" -> "ø"
      [] c = "Ù" -> "ù" [] c = "Ú" -> "ú" [] c = "Û" -> "û" [] c = "Ü" -> "ü"
      [] c = "Ý" -> "ý" [] c = "Þ" -> "þ"
      [] OTHER -> c

\* the subsequence of s whose characters satisfy keep
RECURSIVE FilterChars(_, _)
FilterChars(s, keep) ==
    IF Len(s) = 0 THEN <<>>
    ELSE (IF s[1] \in keep THEN <<s[1]>> ELSE <<>>) \o FilterChars(Tail(s), keep)

\* normalize in TMDBClient.search_tv: re.sub(r'\W+', '', s or '').lower()
normalize(optName) ==
    LET s == IF optName = None THEN <<>> ELSE optName[1]
        w == FilterChars(s, WordChars)
    IN  [i \in 1..Len(w) |-> Lower(w[i])]

\* the provider's result list for a query
Results(table, query) ==
    LET hits == {i \in 1..Len(table) : table[i].query = query}
    IN  IF hits = {} THEN <<>> ELSE table[Min(hits)].results

\* TMDBClient.search_movie: the first result, or None
search_movie(cat, title, year) ==
    LET results == Results(cat.movies, title)
    IN  IF Len(results) > 0 THEN Some(results[1]) ELSE None

\* TMDBClient.search_tv: the first result whose normalized name equals the
\* normalized query, else the first result, or None
search_tv(cat, title) ==
    LET results == Results(cat.shows, title)
        exact == {i \in 1..Len(results) :
                     normalize(results[i].name) = normalize(Some(title))}
    IN  IF Len(results) = 0 THEN None
        ELSE IF exact # {} THEN Some(results[Min(exact)])
        ELSE Some(results[1])

\* The outcome of a secondary lookup call: it raised, or it returned an
\* optional string.
Returned(v) == [raised |-> FALSE, value |-> v]

Raised == [raised |-> TRUE, value |-> None]

\* TMDBClient.get_episode_name
get_episode_name(cat, secRaise, tv_id, season, episode) ==
    IF "episode" \in secRaise THEN Raised
    ELSE LET hits == {e \in cat.episodes :
                         e.id = tv_id /\ e.season = season /\ e.episode = episode}
         IN  IF hits = {} THEN Returned(None)
             ELSE Returned(Some((CHOOSE e \in hits : TRUE).name))

\* TMDBClient.get_movie_imdb_id
get_movie_imdb_id(cat, secRaise, movie_id) ==
    IF "movie_imdb" \in secRaise THEN Raised
    ELSE LET hits == {e \in cat.movie_imdb : e.id = movie_id}
         IN  IF hits = {} THEN Returned(None)
             ELSE Returned(Some((CHOOSE e \in hits : TRUE).imdb))

\* TMDBClient.get_tv_imdb_id
get_tv_imdb_id(cat, secRaise, tv_id) ==
    IF "tv_imdb" \in secRaise THEN Raised
    ELSE LET hits == {e \in cat.tv_imdb : e.id = tv_id}
         IN  IF hits = {} THEN Returned(None)
             ELSE Returned(Some((CHOOSE e \in hits : TRUE).imdb))

\* a lookup whose exception is left to propagate, as it would without the
\* try block around the call
TryLookupNoCatch(outcome) == outcome

\* try: x = lookup(...)  except Exception: x = None
TryLookup(outcome) == IF outcome.raised THEN Returned(None) ELSE outcome

(***************************************************************************)
(* App.get_new_name.  searchRaises says whether the primary search call    *)
(* of this file, if one is made, raises.  The result tells whether an      *)
(* exception left the method, whether a search call was made, and the      *)
(* name returned.                                                          *)
(***************************************************************************)
Named(n, called) == [raised |-> FALSE, called |-> called, name |-> n]

Threw(called) == [raised |-> TRUE, called |-> called, name |-> <<>>]

\* result.get(key, default) for an optional field
GetOr(field, default) == IF field = None THEN default ELSE field[1]

\* the name with the parenthesized year written whether or not there is one
MovieResultNameAlways(title, year, ext) ==
    title \o <<" ", "(">> \o year \o <<")">> \o ext

\* lines 266-271: the name from a movie result
MovieResultName(title, year, ext) ==
    IF year # <<>> THEN title \o <<" ", "(">> \o year \o <<")">> \o ext
    ELSE title \o ext

\* lines 264-275
MovieFileName(movie, result, ext) ==
    IF result # None
    THEN MovieResultName(GetOr(result[1].title, movie.title),
                         Take(result[1].release_date, 4), ext)
    ELSE IF movie.year # None
    THEN movie.title \o <<" ", "(">> \o IntToStr(movie.year[1]) \o <<")">> \o ext
    ELSE movie.title \o ext

\* f"S{season:02}E{episode:02}"
SeasonEp(tv) == <<"S">> \o Pad2(tv.season) \o <<"E">> \o Pad2(tv.episode)

\* lines 286-291: the name from a show result and the episode title
EpisodeResultName(show_name, season_ep, ep, ext) ==
    IF ep.raised THEN Threw(TRUE)
    ELSE IF ep.value # None /\ ep.value[1] # <<>>
    THEN Named(show_name \o <<" ", "-", " ">> \o season_ep
               \o <<" ", "-", " ">> \o ep.value[1] \o ext, TRUE)
    ELSE Named(show_name \o <<" ", "-", " ">> \o season_ep \o ext, TRUE)

\* lines 278-293
EpisodeFileName(cat, tv, result, ext, secRaise) ==
    IF result # None
    THEN EpisodeResultName(
             GetOr(result[1].name, tv.show), SeasonEp(tv),
             TryLookup(get_episode_name(cat, secRaise, result[1].id, tv.season, tv.episode)),
             ext)
    ELSE Named(tv.show \o <<" ", "-", " ">> \o SeasonEp(tv) \o ext, TRUE)

\* lines 262-294, for the parses of the file name
NameOfParsed(cat, filename, ext, movie, tv, searchRaises, secRaise) ==
    IF movie # None
    THEN IF searchRaises THEN Threw(TRUE)
         ELSE Named(MovieFileName(movie[1],
                                  search_movie(cat, movie[1].title, movie[1].year), ext),
                    TRUE)
    ELSE IF tv # None
    THEN IF searchRaises THEN Threw(TRUE)
         ELSE EpisodeFileName(cat, tv[1], search_tv(cat, tv[1].show), ext, secRaise)
    ELSE Named(filename, FALSE)

\* App.get_new_name
get_new_name(cat, filename, searchRaises, secRaise) ==
    NameOfParsed(cat, filename, splitext(filename)[2], parse_movie(filename),
                 parse_tv(filename), searchRaises, secRaise)

(***************************************************************************)
(* The file system.  A path is the sequence of the names that lead to it   *)
(* from the root directory "/" (a name is a string; <<>> is "/" itself),   *)
(* and a file system is the set of its directories and the set of its      *)
(* files, each member a path.  disk is the whole file system the           *)
(* application runs on: the directory TopDir, in which the folder dialog   *)
(* opens, with the selectable root folders in it, the directories above    *)
(* TopDir, and nothing else.  Every path the application uses starts at    *)
(* the path the dialog returned, so every path string is absolute; it is   *)
(* held as the names between its slashes after the first one, an empty     *)
(* name standing where two slashes meet or the string ends in one          *)
(* ("/p/top/" is <<"p", "top", "">>).                                      *)
(***************************************************************************)
Front(s) == SubSeq(s, 1, Len(s) - 1)

Last(s) == s[Len(s)]

\* the directory the folder dialog opens in: /p/top
TopDir == <<<<"p">>, <<"t", "o", "p">>>>

\* the path the dialog returns for the folder of TopDir named name
FolderPath(name) == TopDir \o <<name>>

\* the file system that holds the directories and files of tree in the
\* directory top, and the directories above top
Placed(top, tree) ==
    [dirs |-> {SubSeq(top, 1, n) : n \in 0..Len(top)} \cup {top \o d : d \in tree.dirs},
     files |-> {top \o f : f \in tree.files}]

\* os.path.isdir
DirExists(tree, path) == path \in tree.dirs

\* os.path.isfile
FileExists(tree, path) == path \in tree.files

\* the names of the directories in the directory at path
DirsIn(tree, path) == {Last(d) : d \in {e \in tree.dirs : Len(e) >= 1 /\ Front(e) = path}}

\* the names of the files in the directory at path
FilesIn(tree, path) == {Last(f) : f \in {g \in tree.files : Front(g) = path}}

\* the orders in which the members of S can be listed
Perms(S) ==
    {s \in [1..Cardinality(S) -> S] : \A i \in DOMAIN s : \A j \in DOMAIN s : i # j => s[i] # s[j]}

\* The sequences os.walk(top) can yield, top-down: one record [rel, files]
\* per directory, rel its path below top, files its file names; a directory
\* comes before the directories below it, and the file system chooses the
\* order of the files and of the subdirectories of each directory.
RECURSIVE Walks(_, _, _)
RECURSIVE WalksOfDirs(_, _, _, _)
WalksOfDirs(tree, top, rel, names) ==
    IF Len(names) = 0 THEN {<<>>}
    ELSE {a \o b : a \in Walks(tree, top, rel \o <<names[1]>>),
                   b \in WalksOfDirs(tree, top, rel, Tail(names))}

Walks(tree, top, rel) ==
    {<<[rel |-> rel, files |-> fs]>> \o below :
        fs \in Perms(FilesIn(tree, top \o rel)),
        below \in UNION {WalksOfDirs(tree, top, rel, names) :
                            names \in Perms(DirsIn(tree, top \o rel))}}

\* os.path.join(base, s): s replaces base when it starts with a slash, and
\* follows base after a slash, which is added unless base ends in one
join(base, s) ==
    IF Len(s) > 0 /\ s[1] = "/" THEN SplitOn(Tail(s), "/")
    ELSE IF Len(base) > 0 /\ Last(base) = <<>> THEN Front(base) \o SplitOn(s, "/")
    ELSE base \o SplitOn(s, "/")

\* the place of the last name of names that is not empty
LastName(names) == Max({0} \cup {i \in 1..Len(names) : names[i] # <<>>})

\* os.path.dirname: the path up to its last slash, without the slashes at
\* the end of that unless it holds slashes only
dirname(p) ==
    IF LastName(Front(p)) = 0 THEN Front(p) \o <<<<>>>>
    ELSE SubSeq(p, 1, LastName(Front(p)))

\* where a path leads: to a path of the file system, or nowhere (a name on
\* the way is missing or is no directory)
In(path) == [where |-> "in", path |-> path]

Nowhere == [where |-> "none", path |-> <<>>]

\* the directory reached from the directory at by the name c: "" and "."
\* stay, ".." leads to the parent (to "/" from "/")
StepTo(tree, at, c) ==
    IF at.where = "none" \/ c = <<>> \/ c = <<".">> THEN at
    ELSE IF c = <<".", ".">> THEN (IF at.path = <<>> THEN at ELSE In(Front(at.path)))
    ELSE IF DirExists(tree, at.path \o <<c>>) THEN In(at.path \o <<c>>)
    ELSE Nowhere

RECURSIVE Descend(_, _, _)
Descend(tree, at, names) ==
    IF Len(names) = 0 THEN at
    ELSE Descend(tree, StepTo(tree, at, names[1]), Tail(names))

\* the directory a path leads to when every name of it is one
DirAt(tree, p) == Descend(tree, In(<<>>), p)

\* The entry a path names, for os.rename: the path of the entry and whether
\* the string ends in a slash (it names a directory only); nowhere when the
\* path has no name, when its last name is "." or "..", or when the
\* directory of the entry cannot be reached.
Locate(tree, p) ==
    LET n == LastName(p)
    IN  IF n = 0 \/ p[n] \in {<<".">>, <<".", ".">>}
        THEN [where |-> "none", path |-> <<>>, slash |-> FALSE]
        ELSE LET d == Descend(tree, In(<<>>), SubSeq(p, 1, n - 1))
             IN  [where |-> d.where,
                  path |-> IF d.where = "in" THEN d.path \o <<p[n]>> ELSE <<>>,
                  slash |-> n < Len(p)]

\* os.path.exists: the path leads to a directory, or it names a file and
\* does not end in a slash
PathExists(tree, p) ==
    \/ DirAt(tree, p).where = "in"
    \/ LET e == Locate(tree, p)
       IN  e.where = "in" /\ ~e.slash /\ FileExists(tree, e.path)

\* os.makedirs(path, exist_ok=True) from the directory at on: every missing
\* directory on the way is created; it raises when a name on the way is a
\* file, and leaves the directories created until then.
RECURSIVE makedirs(_, _, _)
makedirs(tree, at, names) ==
    IF Len(names) = 0 THEN [ok |-> TRUE, tree |-> tree]
    ELSE LET c == names[1]
             to == StepTo(tree, at, c)
         IN  IF to.where # "none" THEN makedirs(tree, to, Tail(names))
             ELSE IF FileExists(tree, at.path \o <<c>>) THEN [ok |-> FALSE, tree |-> tree]
             ELSE makedirs([tree EXCEPT !.dirs = @ \cup {at.path \o <<c>>}],
                           In(at.path \o <<c>>), Tail(names))

\* os.rename(src, dst) of the file at src to the entry at dst, whose
\* directory exists: a file at dst is replaced, a directory there refuses
RenameFile(tree, src, dst) ==
    IF ~DirExists(tree, Front(dst)) \/ DirExists(tree, dst)
    THEN [ok |-> FALSE, tree |-> tree]
    ELSE [ok |-> TRUE, tree |-> [tree EXCEPT !.files = (@ \ {src}) \cup {dst}]]

\* whether the directory at path holds nothing
DirEmpty(tree, path) ==
    \A e \in tree.dirs \cup tree.files : IsPrefix(path, e) => e = path

\* the path p after the directory src has become dst
Moved(p, src, dst) == IF IsPrefix(src, p) THEN dst \o Drop(p, Len(src)) ELSE p

\* os.rename(src, dst) of the directory at src to the entry at dst: an
\* empty directory at dst is replaced; it fails when dst lies in src, when
\* dst is a file and when dst is a directory that holds something
RenameDir(tree, src, dst) ==
    IF src = dst THEN [ok |-> TRUE, tree |-> tree]
    ELSE IF \/ Len(src) = 0 \/ Len(dst) = 0
            \/ IsPrefix(src, dst)
            \/ ~DirExists(tree, Front(dst))
            \/ FileExists(tree, dst)
            \/ (DirExists(tree, dst) /\ ~DirEmpty(tree, dst))
    THEN [ok |-> FALSE, tree |-> tree]
    ELSE [ok |-> TRUE,
          tree |-> [dirs |-> {Moved(d, src, dst) : d \in tree.dirs \ {dst}},
                    files |-> {Moved(f, src, dst) : f \in tree.files}]]

\* os.rename for the entries located: it fails when the source is no entry,
\* when the directory of the destination cannot be reached, and when a
\* file is named with a slash at the end
RenameLocated(tree, s, d) ==
    IF s.where # "in" \/ d.where # "in" THEN [ok |-> FALSE, tree |-> tree]
    ELSE IF FileExists(tree, s.path)
    THEN IF s.slash \/ d.slash THEN [ok |-> FALSE, tree |-> tree]
         ELSE RenameFile(tree, s.path, d.path)
    ELSE IF DirExists(tree, s.path) THEN RenameDir(tree, s.path, d.path)
    ELSE [ok |-> FALSE, tree |-> tree]

\* os.rename(src, dst): it fails when the environment refuses it (envFails:
\* permission denied and the like)
rename(tree, src, dst, envFails) ==
    IF envFails THEN [ok |-> FALSE, tree |-> tree]
    ELSE RenameLocated(tree, Locate(tree, src), Locate(tree, dst))

(***************************************************************************)
(* App.scan_folder, lines 169-249: the plan computed for the walk of the   *)
(* selected folder (tree is the sequence its os.walk calls yield, the same *)
(* for each call of one scan: the folder does not change in between).      *)
(* failAt numbers the primary search call (search_movie or search_tv) that *)
(* raises, counted from 1 within the scan; 0 means that none raises.       *)
(* secRaise names the secondary lookups that raise.                        *)
(***************************************************************************)
\* os.path.relpath(rootp, folder) as a string
RelString(rel) == IF rel = <<>> THEN <<".">> ELSE JoinWith(rel, <<"/">>)

\* os.path.join(rel_dir, f) if rel_dir and rel_dir != '.' else f: a name
\* that starts with a slash replaces the directory
JoinRel(rel, f) ==
    IF rel = <<>> THEN f
    ELSE IF Len(f) > 0 /\ f[1] = "/" THEN f
    ELSE RelString(rel) \o <<"/">> \o f

\* every file of the walk with its directory, in the order of the walk
RECURSIVE WalkFiles(_)
WalkFiles(tree) ==
    IF Len(tree) = 0 THEN <<>>
    ELSE [i \in 1..Len(tree[1].files) |-> [rel |-> tree[1].rel, name |-> tree[1].files[i]]]
         \o WalkFiles(Tail(tree))

\* not subdirs and len(files_root) == 1
IsSingleMovieLayout(tree) ==
    /\ \A i \in 1..Len(tree) : Len(tree[i].rel) # 1
    /\ Len(tree[1].files) = 1

\* " {imdb-<id>}" when the lookup gave a non-empty id
ImdbSuffix(imdb) ==
    IF imdb # None /\ imdb[1] # <<>>
    THEN <<" ", "{", "i", "m", "d", "b", "-">> \o imdb[1] \o <<"}">>
    ELSE <<>>

Branch(raised, calls, folders) == [raised |-> raised, calls |-> calls, folders |-> folders]

\* lines 188-193: the root entry of a single-movie folder
MovieRootEntry(base_name, title, year, imdb) ==
    IF imdb.raised THEN Branch(TRUE, 1, <<>>)
    ELSE Branch(FALSE, 1,
                <<<<base_name,
                    title \o <<" ", "(">> \o year \o <<")">> \o ImdbSuffix(imdb.value)>>>>)

\* lines 180-193, for the search result
MovieBranchOfResult(base_name, cat, movie, result, secRaise) ==
    IF result = None THEN Branch(FALSE, 1, <<>>)
    ELSE MovieRootEntry(base_name, GetOr(result[1].title, movie.title),
                        Take(result[1].release_date, 4),
                        TryLookup(get_movie_imdb_id(cat, secRaise, result[1].id)))

\* lines 177-193, for the parse of the only file
MovieBranchOfParsed(base_name, cat, movie, failAt, secRaise) ==
    IF movie = None THEN Branch(FALSE, 0, <<>>)
    ELSE IF failAt = 1 THEN Branch(TRUE, 1, <<>>)
    ELSE MovieBranchOfResult(base_name, cat, movie[1],
                             search_movie(cat, movie[1].title, movie[1].year), secRaise)

\* lines 175-193: the single-movie branch
MovieBranch(base_name, tree, cat, failAt, secRaise) ==
    MovieBranchOfParsed(base_name, cat, parse_movie(tree[1].files[1]), failAt, secRaise)

\* season_map with the first assignment of a directory kept
RECURSIVE SeasonItemsFirstWins(_, _)
SeasonItemsFirstWins(walk, items) ==
    IF Len(walk) = 0 THEN items
    ELSE LET tv == parse_tv(walk[1].name)
             w == walk[1]
         IN  IF w.rel = <<>> \/ tv = None THEN SeasonItemsFirstWins(Tail(walk), items)
             ELSE IF \E i \in 1..Len(items) : items[i][1] = w.rel[1]
             THEN SeasonItemsFirstWins(Tail(walk), items)
             ELSE SeasonItemsFirstWins(Tail(walk), Append(items, <<w.rel[1], tv[1].season>>))

\* lines 223-232: season_map as the list of its items, a directory at the
\* place of its first insertion with the season of its last assignment
RECURSIVE SeasonItems(_, _)
SeasonItems(walk, items) ==
    IF Len(walk) = 0 THEN items
    ELSE LET tv == parse_tv(walk[1].name)
             w == walk[1]
         IN  IF w.rel = <<>> \/ tv = None THEN SeasonItems(Tail(walk), items)
             ELSE LET season_dir == w.rel[1]
                      at == {i \in 1..Len(items) : items[i][1] = season_dir}
                  IN  IF at = {}
                      THEN SeasonItems(Tail(walk), Append(items, <<season_dir, tv[1].season>>))
                      ELSE SeasonItems(Tail(walk),
                                       [items EXCEPT ![Min(at)] = <<season_dir, tv[1].season>>])

\* lines 233-235
SeasonEntries(items) ==
    [i \in 1..Len(items) |->
        <<items[i][1], <<"S", "e", "a", "s", "o", "n", " ">> \o Pad2(items[i][2])>>]

\* the entries in the other order: the season entries before the root's
ShowFolderEntriesRootLast(base_name, new_show, seasons) ==
    seasons \o <<<<base_name, new_show>>>>

\* lines 216-235: the root show entry and the season entries, in the order
\* in which they are appended
ShowFolderEntries(base_name, new_show, seasons) == <<<<base_name, new_show>>>> \o seasons

\* f"{show_name} ({year})" if year else show_name, with the id suffix
ShowName(show_name, year, imdb) ==
    (IF year # <<>> THEN show_name \o <<" ", "(">> \o year \o <<")">> ELSE show_name)
    \o ImdbSuffix(imdb)

\* lines 212-235, for the outcome of the id lookup
ShowEntries(base_name, show_name, year, imdb, walk) ==
    IF imdb.raised THEN Branch(TRUE, 1, <<>>)
    ELSE Branch(FALSE, 1,
                ShowFolderEntries(base_name, ShowName(show_name, year, imdb.value),
                                  SeasonEntries(SeasonItems(walk, <<>>))))

\* lines 207-235, for the search result
ShowBranchOfResult(base_name, cat, tv_info, result, walk, secRaise) ==
    IF result = None
    THEN ShowEntries(base_name, tv_info.show, <<>>, Returned(None), walk)
    ELSE ShowEntries(base_name, GetOr(result[1].name, tv_info.show),
                     Take(result[1].first_air_date, 4),
                     IF result[1].id # 0
                     THEN TryLookup(get_tv_imdb_id(cat, secRaise, result[1].id))
                     ELSE Returned(None),
                     walk)

\* lines 205-235, for the first episode file of the walk
ShowBranchOfFirst(base_name, cat, tv_info, walk, failAt, secRaise) ==
    IF failAt = 1 THEN Branch(TRUE, 1, <<>>)
    ELSE ShowBranchOfResult(base_name, cat, tv_info, search_tv(cat, tv_info.show),
                            walk, secRaise)

\* lines 196-235, for the files of the walk and the positions of those that
\* parse as episodes
ShowBranchOfWalk(base_name, cat, walk, tvs, failAt, secRaise) ==
    IF tvs = {} THEN Branch(FALSE, 0, <<>>)
    ELSE ShowBranchOfFirst(base_name, cat, parse_tv(walk[Min(tvs)].name)[1], walk,
                           failAt, secRaise)

EpisodePositions(walk) == {i \in 1..Len(walk) : parse_tv(walk[i].name) # None}

\* lines 195-235: the show branch
ShowBranch(base_name, tree, cat, failAt, secRaise) ==
    ShowBranchOfWalk(base_name, cat, WalkFiles(tree), EpisodePositions(WalkFiles(tree)),
                     failAt, secRaise)

\* lines 244-247: the entry appended for a file
FileEntry(rel, f, new_file) == <<JoinRel(rel, f), JoinRel(rel, new_file)>>

Loop(raised, calls, files) == [raised |-> raised, calls |-> calls, files |-> files]

\* lines 241-249: the file loop from file i on, calls search calls made so
\* far, done the entries appended so far
RECURSIVE FileLoop(_, _, _, _, _, _, _)
StepFile(walk, i, calls, done, cat, failAt, secRaise, got) ==
    IF got.raised THEN Loop(TRUE, calls + 1, done)
    ELSE FileLoop(walk, i + 1, IF got.called THEN calls + 1 ELSE calls,
                  Append(done, FileEntry(walk[i].rel, walk[i].name, got.name)),
                  cat, failAt, secRaise)

FileLoop(walk, i, calls, done, cat, failAt, secRaise) ==
    IF i > Len(walk) THEN Loop(FALSE, calls, done)
    ELSE StepFile(walk, i, calls, done, cat, failAt, secRaise,
                  get_new_name(cat, walk[i].name, failAt = calls + 1, secRaise))

Column(entries, k) == [i \in 1..Len(entries) |-> entries[i][k]]

\* lines 236-249: what the scan leaves behind, for the outcome of the layout
\* branch and of the file loop
ScanOutcome(branch, loop) ==
    IF branch.raised
    THEN [outcome |-> "raised", calls |-> branch.calls, folders |-> <<>>, files |-> <<>>,
          orig |-> <<>>, new |-> <<>>]
    ELSE [outcome |-> IF loop.raised THEN "raised" ELSE "ok",
          calls |-> loop.calls,
          folders |-> branch.folders,
          files |-> loop.files,
          orig |-> Column(branch.folders, 1) \o Column(loop.files, 1),
          new |-> Column(branch.folders, 2) \o Column(loop.files, 2)]

\* lines 175-235: the layout branch
LayoutBranch(base_name, tree, cat, failAt, secRaise) ==
    IF IsSingleMovieLayout(tree)
    THEN MovieBranch(base_name, tree, cat, failAt, secRaise)
    ELSE ShowBranch(base_name, tree, cat, failAt, secRaise)

ScanAfterBranch(branch, tree, cat, failAt, secRaise) ==
    ScanOutcome(branch,
                IF branch.raised THEN Loop(FALSE, branch.calls, <<>>)
                ELSE FileLoop(WalkFiles(tree), 1, branch.calls, <<>>, cat, failAt, secRaise))

\* lines 163-249: what the scan leaves behind
ScanRun(base_name, tree, cat, failAt, secRaise) ==
    ScanAfterBranch(LayoutBranch(base_name, tree, cat, failAt, secRaise),
                    tree, cat, failAt, secRaise)

(***************************************************************************)
(* App.rename_files, lines 303-337.  The environment refuses the renames   *)
(* whose attempt numbers (counted from 1 within the call) are in failSet,  *)
(* and refuses every directory creation when mkdirFails.  log records each *)
(* rename attempted, in order; errors holds the labels appended to errors. *)
(***************************************************************************)
Run(aborted, tree, log, errors) ==
    [aborted |-> aborted, tree |-> tree, log |-> log, errors |-> errors]

Attempt(kind, entry, index, ok) ==
    [kind |-> kind, old |-> entry[1], new |-> entry[2], index |-> index, ok |-> ok]

\* lines 310-311: the destination directory is created outside the try
\* block, so a failure to create it leaves the method
EnsureDir(tree, dst_dir, mkdirFails) ==
    IF PathExists(tree, dst_dir) THEN [ok |-> TRUE, tree |-> tree]
    ELSE IF mkdirFails THEN [ok |-> FALSE, tree |-> tree]
    ELSE makedirs(tree, In(<<>>), dst_dir)

\* lines 305-315: the file entries from entry i on
RECURSIVE FilePhase(_, _, _, _, _, _)
FilePhase(run, folder, plan, i, failSet, mkdirFails) ==
    IF i > Len(plan) THEN run
    ELSE LET src == join(folder, plan[i][1])
             dst == join(folder, plan[i][2])
             made == EnsureDir(run.tree, dirname(dst), mkdirFails)
         IN  IF ~made.ok THEN Run(TRUE, made.tree, run.log, run.errors)
             ELSE LET r == rename(made.tree, src, dst, (Len(run.log) + 1) \in failSet)
                  IN  FilePhase(
                          Run(FALSE, r.tree,
                              Append(run.log, Attempt("file", plan[i], i, r.ok)),
                              IF r.ok THEN run.errors
                              ELSE Append(run.errors, <<"File", plan[i][1]>>)),
                          folder, plan, i + 1, failSet, mkdirFails)

\* lines 318-327: the folder entries other than the root's, from entry i on
RECURSIVE FolderPhase(_, _, _, _, _)
FolderPhase(run, folder, plan, i, failSet) ==
    IF i > Len(plan) THEN run
    ELSE IF plan[i][1] = Last(folder) THEN FolderPhase(run, folder, plan, i + 1, failSet)
    ELSE LET r == rename(run.tree, join(folder, plan[i][1]),
                         join(folder, plan[i][2]), (Len(run.log) + 1) \in failSet)
         IN  FolderPhase(
                 Run(FALSE, r.tree,
                     Append(run.log, Attempt("folder", plan[i], i, r.ok)),
                     IF r.ok THEN run.errors
                     ELSE Append(run.errors, <<"Folder", plan[i][1]>>)),
                 folder, plan, i + 1, failSet)

\* lines 329-337: the entries named like the root, from entry i on
RECURSIVE RootPhase(_, _, _, _, _)
RootPhase(run, folder, plan, i, failSet) ==
    IF i > Len(plan) THEN run
    ELSE IF plan[i][1] # Last(folder) THEN RootPhase(run, folder, plan, i + 1, failSet)
    ELSE LET r == rename(run.tree, folder, join(dirname(folder), plan[i][2]),
                         (Len(run.log) + 1) \in failSet)
         IN  RootPhase(
                 Run(FALSE, r.tree,
                     Append(run.log, Attempt("root", plan[i], i, r.ok)),
                     IF r.ok THEN run.errors
                     ELSE Append(run.errors, <<"Root folder", plan[i][1]>>)),
                 folder, plan, i + 1, failSet)

\* lines 303-337: the three loops in the order of the code
RenameRun(tree, folder, files, folders, failSet, mkdirFails) ==
    LET p1 == FilePhase(Run(FALSE, tree, <<>>, <<>>), folder, files, 1, failSet, mkdirFails)
    IN  IF p1.aborted THEN p1
        ELSE RootPhase(FolderPhase(p1, folder, folders, 1, failSet),
                       folder, folders, 1, failSet)

(***************************************************************************)
(* The inputs: the directories the application is run on and the catalogs  *)
(* it queries.  Each disk is the file system with the given root folders   *)
(* in TopDir, written with the file names spelled out.                     *)
(***************************************************************************)
\* m/a.2010.mkv: a single-movie folder
DiskMovie ==
    Placed(TopDir,
        [dirs |-> {<<>>,
                   <<<<"m">>>>},
         files |-> {<<<<"m">>, <<"a", ".", "2", "0", "1", "0", ".", "m", "k", "v">>>>}])

\* s/x/b.S01E01.mkv, s/y/b.s2e03.mkv: a show with two season folders
DiskShow ==
    Placed(TopDir,
        [dirs |-> {<<>>,
                   <<<<"s">>>>,
                   <<<<"s">>, <<"x">>>>,
                   <<<<"s">>, <<"y">>>>},
         files |-> {<<<<"s">>, <<"x">>, <<"b", ".", "S", "0", "1", "E", "0", "1", ".", "m", "k", "v">>>>,
                    <<<<"s">>, <<"y">>, <<"b", ".", "s", "2", "e", "0", "3", ".", "m", "k", "v">>>>}])

\* c/a.2010.x.mkv, c/a.2010.y.mkv: two copies of one movie in a folder
DiskCopies ==
    Placed(TopDir,
        [dirs |-> {<<>>,
                   <<<<"c">>>>},
         files |-> {<<<<"c">>, <<"a", ".", "2", "0", "1", "0", ".", "x", ".", "m", "k", "v">>>>,
                    <<<<"c">>, <<"a", ".", "2", "0", "1", "0", ".", "y", ".", "m", "k", "v">>>>}])

\* b/b/b.S01E02.mkv: a season folder named like the root folder
DiskNested ==
    Placed(TopDir,
        [dirs |-> {<<>>,
                   <<<<"b">>>>,
                   <<<<"b">>, <<"b">>>>},
         files |-> {<<<<"b">>, <<"b">>, <<"b", ".", "S", "0", "1", "E", "0", "2", ".", "m", "k", "v">>>>}])

\* d/d.2011.mkv, d/n.txt and e/e.2012.mkv: two folders side by side
DiskTwo ==
    Placed(TopDir,
        [dirs |-> {<<>>,
                   <<<<"d">>>>,
                   <<<<"e">>>>},
         files |-> {<<<<"d">>, <<"d", ".", "2", "0", "1", "1", ".", "m", "k", "v">>>>,
                    <<<<"d">>, <<"n", ".", "t", "x", "t">>>>,
                    <<<<"e">>, <<"e", ".", "2", "0", "1", "2", ".", "m", "k", "v">>>>}])

\* r/a.720p.2010.mkv: a resolution marker before the year
DiskRes ==
    Placed(TopDir,
        [dirs |-> {<<>>,
                   <<<<"r">>>>},
         files |-> {<<<<"r">>, <<"a", ".", "7", "2", "0", "p", ".", "2", "0", "1", "0", ".", "m", "k", "v">>>>}])

\* a name in the target form of the naming rules whose title holds a year
DiskTarget ==
    Placed(TopDir,
        [dirs |-> {<<>>,
                   <<<<"t">>>>},
         files |-> {<<<<"t">>, <<"B", " ", "-", " ", "S", "0", "1", "E", "0", "2", " ", "-", " ", "1", "9", "6", "9", ".", "m", "k", "v">>>>,
                    <<<<"t">>, <<"A", " ", "(", "2", "0", "1", "0", ")", ".", "m", "k", "v">>>>}])

\* w/b.S04E01.mkv, w/x/b.S02E01.mkv, w/x/z/b.S01E07.mkv: an episode in the
\* root and, under one subdirectory, episodes of two seasons
DiskSeasons ==
    Placed(TopDir,
        [dirs |-> {<<>>,
                   <<<<"w">>>>,
                   <<<<"w">>, <<"x">>>>,
                   <<<<"w">>, <<"x">>, <<"z">>>>},
         files |-> {<<<<"w">>, <<"b", ".", "S", "0", "4", "E", "0", "1", ".", "m", "k", "v">>>>,
                    <<<<"w">>, <<"x">>, <<"b", ".", "S", "0", "2", "E", "0", "1", ".", "m", "k", "v">>>>,
                    <<<<"w">>, <<"x">>, <<"z">>, <<"b", ".", "S", "0", "1", "E", "0", "7", ".", "m", "k", "v">>>>}])

Disks == {DiskMovie, DiskShow, DiskCopies, DiskNested, DiskTwo, DiskRes, DiskTarget}

\* a catalog that knows nothing: every search has an empty result set
CatalogEmpty ==
    [movies |-> <<>>, shows |-> <<>>, episodes |-> {}, movie_imdb |-> {}, tv_imdb |-> {}]

\* a catalog with the movies "A" (2010-07-16), "D/E" (2011-01-02) and "E" (no
\* release date) and the show "B" (2015-06-24), whose episode S01E02 is
\* titled "1969" and whose episode S01E01 is titled "P"
CatalogFull ==
    [movies |->
        <<[query |-> <<"a">>,
           results |-> <<[title |-> Some(<<"A">>), release_date |-> <<"2", "0", "1", "0", "-", "0", "7", "-", "1", "6">>, id |-> 1]>>],
          [query |-> <<"d">>,
           results |-> <<[title |-> Some(<<"D", "/", "E">>), release_date |-> <<"2", "0", "1", "1", "-", "0", "1", "-", "0", "2">>, id |-> 2]>>],
          [query |-> <<"e">>,
           results |-> <<[title |-> Some(<<"E">>), release_date |-> <<>>, id |-> 3]>>]>>,
     shows |->
        <<[query |-> <<"b">>,
           results |-> <<[name |-> Some(<<"B", "x">>), first_air_date |-> <<"2", "0", "0", "1", "-", "0", "1", "-", "0", "1">>, id |-> 7],
                         [name |-> Some(<<"B">>), first_air_date |-> <<"2", "0", "1", "5", "-", "0", "6", "-", "2", "4">>, id |-> 8]>>],
          [query |-> <<"B">>,
           results |-> <<[name |-> Some(<<"B">>), first_air_date |-> <<"2", "0", "1", "5", "-", "0", "6", "-", "2", "4">>, id |-> 8]>>]>>,
     episodes |-> {[id |-> 8, season |-> 1, episode |-> 2, name |-> <<"1", "9", "6", "9">>],
                   [id |-> 8, season |-> 1, episode |-> 1, name |-> <<"P">>]},
     movie_imdb |-> {[id |-> 1, imdb |-> <<"t", "t", "1">>]},
     tv_imdb |-> {[id |-> 8, imdb |-> <<"t", "t", "8">>]}]

Catalogs == {CatalogEmpty, CatalogFull}

\* the API key of the configuration
Key == <<"k">>

\* what the user leaves in the API key entry: nothing, the key of the
\* configuration between spaces, another key
EntryTexts == {<<>>, <<" ", "k", " ">>, <<"z">>}

(***************************************************************************)
(* The application state and its handlers.                                 *)
(***************************************************************************)
SecondaryKinds == {"episode", "movie_imdb", "tv_imdb"}

\* the secondary lookups that raise during one scan: none, or one kind
SecondaryFailures == {{}} \cup {{k} : k \in SecondaryKinds}

NoScan ==
    [outcome |-> "none", root |-> <<>>, tree |-> <<>>, failAt |-> 0, secRaise |-> {},
     calls |-> 0, at |-> 0]

NoApply ==
    [outcome |-> "none", root |-> <<>>, files |-> <<>>, folders |-> <<>>, log |-> <<>>,
     errors |-> <<>>, scanned |-> FALSE, fresh |-> FALSE, at |-> 0]

\* App.__init__ beside one of the disks and catalogs given: the key comes
\* from the configuration file, the client is built with it, the key entry
\* shows it, the directory entry and the preview lists are empty
InitWith(disks, catalogs) ==
    /\ disk \in disks
    /\ catalog \in catalogs
    /\ api_key = Key
    /\ client = api_key
    /\ api_key_entry = api_key
    /\ dir_entry = <<>>
    /\ folder_preview_list = <<>>
    /\ file_preview_list = <<>>
    /\ orig_text = <<>>
    /\ new_text = <<>>
    /\ lastScan = NoScan
    /\ lastApply = NoApply
    /\ nops = 0

Init == InitWith(Disks, Catalogs)

\* the names of the directories the folder dialog offers
RootNames(tree) == DirsIn(tree, TopDir)

\* App.browse_folder: the dialog returns an existing directory
browse_folder ==
    /\ \E folder \in RootNames(disk) : dir_entry' = folder
    /\ UNCHANGED <<disk, api_key_entry, api_key, client, catalog, folder_preview_list,
                   file_preview_list, orig_text, new_text, lastScan, lastApply, nops>>

\* the user clears or retypes the API key entry
edit_api_key_entry ==
    /\ nops < MaxOps
    /\ nops' = nops + 1
    /\ \E text \in EntryTexts \ {api_key_entry} : api_key_entry' = text
    /\ UNCHANGED <<disk, dir_entry, api_key, client, catalog, folder_preview_list,
                   file_preview_list, orig_text, new_text, lastScan, lastApply>>

\* App.save_config: the key of the entry becomes self.api_key; the client
\* is rebuilt with it when the configuration file has been written
\* (written), and is left alone when writing it raised
save_config ==
    /\ nops < MaxOps
    /\ nops' = nops + 1
    /\ api_key' = Strip(api_key_entry)
    /\ \E written \in BOOLEAN :
           client' = IF written THEN Strip(api_key_entry) ELSE client
    /\ UNCHANGED <<disk, dir_entry, api_key_entry, catalog, folder_preview_list,
                   file_preview_list, orig_text, new_text, lastScan, lastApply>>

\* lines 151-154: no key in the entry, the scan is rejected
ScanNoKey ==
    /\ Strip(api_key_entry) = <<>>
    /\ lastScan' = [NoScan EXCEPT !.outcome = "no_key", !.root = dir_entry, !.at = nops + 1]
    /\ UNCHANGED <<api_key, client, folder_preview_list, file_preview_list, orig_text,
                   new_text>>

\* lines 155-157: a key other than self.api_key replaces it, and the
\* client is rebuilt with it
TakeKey(key) ==
    /\ api_key' = key
    /\ client' = IF key # api_key THEN key ELSE client

\* lines 155-162: the client takes the key, the folder is rejected
ScanInvalidRoot ==
    /\ Strip(api_key_entry) # <<>>
    /\ dir_entry = <<>> \/ ~DirExists(disk, FolderPath(dir_entry))
    /\ TakeKey(Strip(api_key_entry))
    /\ lastScan' = [NoScan EXCEPT !.outcome = "invalid_root", !.root = dir_entry,
                                  !.at = nops + 1]
    /\ UNCHANGED <<folder_preview_list, file_preview_list, orig_text, new_text>>

\* lines 163-249: the lists and the preview take what the scan run leaves;
\* failAt is a call the scan makes, and secRaise names a lookup that would
\* have returned a value (plain is the same scan with no lookup raising)
LeaveScan(run, plain, tree, failAt, secRaise) ==
    /\ failAt = 0 \/ run.outcome = "raised"
    /\ secRaise = {} \/ run # plain
    /\ folder_preview_list' = run.folders
    /\ file_preview_list' = run.files
    /\ orig_text' = run.orig
    /\ new_text' = run.new
    /\ lastScan' = [outcome |-> run.outcome, root |-> dir_entry, tree |-> tree,
                    failAt |-> failAt, secRaise |-> secRaise, calls |-> run.calls,
                    at |-> nops + 1]

\* the scan whose os.walk calls yield tree
ScanTree(tree) ==
    \E secRaise \in SecondaryFailures :
    \E failAt \in 0..(Len(WalkFiles(tree)) + 1) :
        LeaveScan(ScanRun(dir_entry, tree, catalog, failAt, secRaise),
                  ScanRun(dir_entry, tree, catalog, failAt, {}),
                  tree, failAt, secRaise)

\* lines 155-249: the scan of an existing folder
ScanValidRoot ==
    /\ Strip(api_key_entry) # <<>>
    /\ dir_entry # <<>>
    /\ DirExists(disk, FolderPath(dir_entry))
    /\ TakeKey(Strip(api_key_entry))
    /\ \E walk \in Walks(disk, FolderPath(dir_entry), <<>>) : ScanTree(walk)

\* App.scan_folder
scan_folder ==
    /\ nops < MaxOps
    /\ nops' = nops + 1
    /\ \/ ScanNoKey
       \/ ScanInvalidRoot
       \/ ScanValidRoot
    /\ UNCHANGED <<disk, dir_entry, api_key_entry, catalog, lastApply>>

\* the attempt numbers the environment may refuse
FailSets(n) == {F \in SUBSET (1..n) : Cardinality(F) <= MaxRefused}

\* lines 303-341: the disk and the report the batch leaves; mkdirFails is
\* a refusal the batch meets
LeaveRename(run, mkdirFails) ==
    /\ mkdirFails => run.aborted
    /\ disk' = run.tree
    /\ lastApply' = [outcome |-> IF run.aborted THEN "aborted" ELSE "done",
                     root |-> dir_entry,
                     files |-> file_preview_list,
                     folders |-> folder_preview_list,
                     log |-> run.log,
                     errors |-> run.errors,
                     scanned |-> /\ lastScan.outcome = "ok"
                                 /\ lastScan.root = dir_entry
                                 /\ lastScan.at > lastApply.at
                                 /\ lastScan.secRaise = {},
                     fresh |-> /\ lastScan.outcome = "ok"
                               /\ lastScan.root = dir_entry
                               /\ lastScan.at > lastApply.at,
                     at |-> nops + 1]

\* App.rename_files
rename_files ==
    /\ nops < MaxOps
    /\ nops' = nops + 1
    /\ \/ /\ dir_entry = <<>>
          /\ lastApply' = [NoApply EXCEPT !.outcome = "no_folder", !.at = nops + 1]
          /\ UNCHANGED disk
       \/ /\ dir_entry # <<>>
          /\ \E mkdirFails \in BOOLEAN :
             \E failSet \in FailSets(Len(file_preview_list) + Len(folder_preview_list)) :
                LeaveRename(RenameRun(disk, FolderPath(dir_entry), file_preview_list,
                                      folder_preview_list, failSet, mkdirFails),
                            mkdirFails)
    /\ UNCHANGED <<dir_entry, api_key_entry, api_key, client, catalog,
                   folder_preview_list, file_preview_list, orig_text, new_text, lastScan>>

\* the application started beside the folders with at most one
\* subdirectory
InitNarrow == InitWith(Disks \ {DiskShow}, Catalogs)

\* the application started beside the show folder of DiskShow, with a
\* catalog that does not know the show
InitShow == InitWith({DiskShow}, {CatalogEmpty})

\* the application started beside the folder of DiskSeasons
InitSeasons == InitWith({DiskSeasons}, Catalogs)

Next ==
    \/ browse_folder
    \/ edit_api_key_entry
    \/ save_config
    \/ scan_folder
    \/ rename_files

Spec == Init /\ [][Next]_vars

SpecNarrow == InitNarrow /\ [][Next]_vars

SpecShow == InitShow /\ [][Next]_vars

SpecSeasons == InitSeasons /\ [][Next]_vars

(***************************************************************************)
(* The claims.                                                             *)
(***************************************************************************)
Applied == lastApply.outcome \in {"done", "aborted"}

Scanned == lastScan.outcome \in {"ok", "raised"}

\* what an attempt of the log renames
Renames(log) == [i \in 1..Len(log) |-> <<log[i].kind, log[i].old, log[i].new>>]

Tagged(kind, entries) == [i \in 1..Len(entries) |-> <<kind, entries[i][1], entries[i][2]>>]

RECURSIVE Keep(_, _, _)
Keep(entries, base, same) ==
    IF Len(entries) = 0 THEN <<>>
    ELSE (IF (entries[1][1] = base) = same THEN <<entries[1]>> ELSE <<>>)
         \o Keep(Tail(entries), base, same)

\* the three phases of a plan: the file entries, the folder entries not
\* named like the root, the folder entries named like the root
ThreePhases(files, folders, base) ==
    Tagged("file", files) \o Tagged("folder", Keep(folders, base, FALSE))
    \o Tagged("root", Keep(folders, base, TRUE))

\* the part of the order that holds in every call: the attempts made are
\* the first of the three phases' entries, in their order, all of them when
\* the call runs to its end
AttemptsInOrder ==
    Applied =>
        LET done == Renames(lastApply.log)
            plan == ThreePhases(lastApply.files, lastApply.folders, lastApply.root)
        IN  /\ Len(done) <= Len(plan)
            /\ done = SubSeq(plan, 1, Len(done))
            /\ lastApply.outcome = "done" => done = plan

\* C1: for every plan and root, a rename_files call attempts every file
\* entry in plan order, then every folder entry whose old name is not the
\* root's base name in plan order, then the root folder entry, and nothing
\* is attempted after the rename of the root folder.
C1_ThreePhases ==
    Applied =>
        LET done == Renames(lastApply.log)
        IN  /\ done = ThreePhases(lastApply.files, lastApply.folders, lastApply.root)
            /\ \A i \in 1..Len(done) : done[i][1] = "root" => i = Len(done)

\* C2: in a rename_files call every file entry is attempted, whatever
\* failed before it, and the error report holds exactly the entries whose
\* directory creation or rename failed.
C2_ErrorsAccumulate ==
    Applied =>
        /\ Cardinality({i \in 1..Len(lastApply.log) : lastApply.log[i].kind = "file"})
               = Len(lastApply.files)
        /\ Len(lastApply.errors)
               = Cardinality({i \in 1..Len(lastApply.log) : ~lastApply.log[i].ok})

\* C3: a scan that a raising search call ends leaves no folder entries, no
\* file entries and no preview.
C3_RaisedScanLeavesNoPlan ==
    lastScan.outcome = "raised" =>
        /\ folder_preview_list = <<>>
        /\ file_preview_list = <<>>
        /\ orig_text = <<>>
        /\ new_text = <<>>

\* C4: after a scan rejected for its root, no catalog call was made and
\* there are no folder entries and no file entries to apply.
C4_InvalidRootLeavesNoPlan ==
    lastScan.outcome = "invalid_root" =>
        /\ lastScan.calls = 0
        /\ folder_preview_list = <<>>
        /\ file_preview_list = <<>>

IsSeasonName(name) ==
    /\ Len(name) >= 9
    /\ SubSeq(name, 1, 7) = <<"S", "e", "a", "s", "o", "n", " ">>
    /\ \A i \in 8..Len(name) : \E d \in 0..9 : name[i] = DigitChar(d)

\* C5 as amended: in the folder entries a scan produces, the root entry,
\* when present, is the first element; every entry after it is a season
\* entry.
C5_RootEntryFirst ==
    (Scanned /\ folder_preview_list # <<>>) =>
        /\ folder_preview_list[1][1] = lastScan.root
        /\ \A i \in 2..Len(folder_preview_list) : IsSeasonName(folder_preview_list[i][2])

\* a scan that produced the root entry and a season entry
C5_Witness ==
    /\ lastScan.outcome = "ok"
    /\ Len(folder_preview_list) >= 2
    /\ folder_preview_list[2][1] # lastScan.root

\* C5 as claimed: an entry whose old name is the root's base name is the
\* last element of the folder entries.
C5_RootEntryLast ==
    Scanned =>
        \A i \in 1..Len(folder_preview_list) :
            folder_preview_list[i][1] = lastScan.root => i = Len(folder_preview_list)

\* C6: the file entries of a scan are pairwise distinct in their original
\* relative paths and in their new relative paths.
C6_FilePathsDistinct ==
    lastScan.outcome = "ok" =>
        \A i \in 1..Len(file_preview_list) : \A j \in 1..Len(file_preview_list) :
            i # j => /\ file_preview_list[i][1] # file_preview_list[j][1]
                     /\ file_preview_list[i][2] # file_preview_list[j][2]

\* the catalog in which the lookups of the given kinds find nothing
Absent(cat, kinds) ==
    [cat EXCEPT !.episodes = IF "episode" \in kinds THEN {} ELSE @,
                !.movie_imdb = IF "movie_imdb" \in kinds THEN {} ELSE @,
                !.tv_imdb = IF "tv_imdb" \in kinds THEN {} ELSE @]

PlanOf(run) == <<run.outcome, run.folders, run.files, run.orig, run.new>>

\* C7: a scan in which secondary lookups raise leaves exactly what the same
\* scan leaves when those lookups return nothing, and only a raising search
\* call ends it.
C7_SecondaryFailureAbsent ==
    (Scanned /\ lastScan.secRaise # {}) =>
        /\ <<lastScan.outcome, folder_preview_list, file_preview_list, orig_text, new_text>>
               = PlanOf(ScanRun(lastScan.root, lastScan.tree,
                                Absent(catalog, lastScan.secRaise), lastScan.failAt, {}))
        /\ lastScan.outcome = "raised" => lastScan.failAt # 0

\* a completed scan whose raising lookup would have named an episode or an
\* external id
C7_Witness ==
    /\ lastScan.outcome = "ok"
    /\ lastScan.secRaise # {}
    /\ <<folder_preview_list, file_preview_list>>
           # <<ScanRun(lastScan.root, lastScan.tree, catalog, 0, {}).folders,
                ScanRun(lastScan.root, lastScan.tree, catalog, 0, {}).files>>

\* the base name of the root after a batch: the new name of its last
\* successful root rename
RECURSIVE RootAfter(_, _)
RootAfter(log, root) ==
    IF Len(log) = 0 THEN root
    ELSE IF log[1].kind = "root" /\ log[1].ok THEN RootAfter(Tail(log), log[1].new)
    ELSE RootAfter(Tail(log), root)

\* the last scan read the tree that the batch before it left, the batch
\* applied without errors the plan of a completed scan of that tree, and no
\* lookup failed
RescanOfApplied ==
    /\ lastScan.outcome = "ok"
    /\ lastScan.failAt = 0
    /\ lastScan.secRaise = {}
    /\ lastApply.outcome = "done"
    /\ lastApply.scanned
    /\ lastApply.errors = <<>>
    /\ lastScan.at = lastApply.at + 1
    /\ lastScan.root = RootAfter(lastApply.log, lastApply.root)

\* C8: the scan of a tree renamed by an error-free batch yields only
\* identity entries.
C8_RescanIsIdentity ==
    RescanOfApplied =>
        /\ \A i \in 1..Len(file_preview_list) :
               file_preview_list[i][1] = file_preview_list[i][2]
        /\ \A i \in 1..Len(folder_preview_list) :
               folder_preview_list[i][1] = folder_preview_list[i][2]

\* C9: in a show-layout scan with an episode file, exactly one folder entry
\* has the root's base name as old name and every other folder entry is
\* named "Season NN".
C9_OneRootEntry ==
    (/\ lastScan.outcome = "ok"
     /\ ~IsSingleMovieLayout(lastScan.tree)
     /\ EpisodePositions(WalkFiles(lastScan.tree)) # {}) =>
        /\ Cardinality({i \in 1..Len(folder_preview_list) :
                           folder_preview_list[i][1] = lastScan.root}) = 1
        /\ \A i \in 1..Len(folder_preview_list) :
               folder_preview_list[i][1] # lastScan.root
                   => IsSeasonName(folder_preview_list[i][2])

\* the files of the last scan that parse as movies and have a catalog result
MovieHits ==
    {i \in 1..Len(file_preview_list) :
        LET movie == parse_movie(WalkFiles(lastScan.tree)[i].name)
        IN  /\ movie # None
            /\ search_movie(catalog, movie[1].title, movie[1].year) # None}

HitOf(i) ==
    LET movie == parse_movie(WalkFiles(lastScan.tree)[i].name)[1]
    IN  search_movie(catalog, movie.title, movie.year)[1]

Parenthesized(title, year) == title \o <<" ", "(">> \o year \o <<")">>

\* C10 as amended: a file that parses as a movie and has a catalog result
\* is named "{title} ({first 4 characters of the release date})" plus its
\* extension when the release date is not empty, and "{title}" plus its
\* extension when it is empty; with a release date the single-movie folder
\* name starts with the file's new base name.
C10_MovieFileName ==
    lastScan.outcome = "ok" =>
        \A i \in MovieHits :
            LET w == WalkFiles(lastScan.tree)[i]
                hit == HitOf(i)
                ext == splitext(w.name)[2]
                named == Parenthesized(hit.title[1], Take(hit.release_date, 4))
            IN  /\ hit.release_date # <<>> =>
                       file_preview_list[i] = <<JoinRel(w.rel, w.name),
                                                JoinRel(w.rel, named \o ext)>>
                /\ hit.release_date = <<>> =>
                       file_preview_list[i] = <<JoinRel(w.rel, w.name),
                                                JoinRel(w.rel, hit.title[1] \o ext)>>
                /\ (hit.release_date # <<>> /\ IsSingleMovieLayout(lastScan.tree)) =>
                       /\ Len(folder_preview_list) = 1
                       /\ IsPrefix(named, folder_preview_list[1][2])

\* a completed scan with a file whose catalog result has no release date
C10_Witness ==
    /\ lastScan.outcome = "ok"
    /\ \E i \in MovieHits : HitOf(i).release_date = <<>>

\* C10 as claimed: the file is named "{title} ({first 4 characters of the
\* release date})" plus its extension, also when the release date is empty.
C10_MovieFileNameAlwaysYear ==
    lastScan.outcome = "ok" =>
        \A i \in MovieHits :
            LET w == WalkFiles(lastScan.tree)[i]
                hit == HitOf(i)
            IN  file_preview_list[i][2]
                    = JoinRel(w.rel, Parenthesized(hit.title[1], Take(hit.release_date, 4))
                                     \o splitext(w.name)[2])

\* the places in the walk of the episode files under the immediate
\* subdirectory d of the root
EpisodesUnder(walk, d) ==
    {i \in 1..Len(walk) :
        /\ walk[i].rel # <<>>
        /\ walk[i].rel[1] = d
        /\ parse_tv(walk[i].name) # None}

\* the immediate subdirectories of the root
Subdirs(tree) == {tree[i].rel[1] : i \in {j \in 1..Len(tree) : Len(tree[j].rel) >= 1}}

\* the new name the claim gives the season entry of d
LastSeasonName(walk, d) ==
    <<"S", "e", "a", "s", "o", "n", " ">>
    \o Pad2(parse_tv(walk[Max(EpisodesUnder(walk, d))].name)[1].season)

\* the entries after the root entry
SeasonPart(folders) == SubSeq(folders, 2, Len(folders))

\* the season entries are those of the subdirectories holding episodes,
\* one each, named by the last episode visited
SeasonsOfWalk(tree, walk, seasons) ==
    /\ \A d \in Subdirs(tree) :
           EpisodesUnder(walk, d) # {} =>
               /\ Cardinality({i \in 1..Len(seasons) : seasons[i][1] = d}) = 1
               /\ \A i \in 1..Len(seasons) :
                      seasons[i][1] = d => seasons[i][2] = LastSeasonName(walk, d)
    /\ \A i \in 1..Len(seasons) :
           /\ seasons[i][1] \in Subdirs(tree)
           /\ EpisodesUnder(walk, seasons[i][1]) # {}

\* C11: in a show-layout scan with an episode file, each immediate
\* subdirectory of the root with an episode file below it has exactly one
\* season entry, named "Season NN" for the season of the last episode file
\* visited under it in the walk, and there is no other season entry: an
\* episode file in the root gives none.
C11_SeasonLastWins ==
    (/\ Scanned
     /\ ~IsSingleMovieLayout(lastScan.tree)
     /\ folder_preview_list # <<>>) =>
        SeasonsOfWalk(lastScan.tree, WalkFiles(lastScan.tree),
                      SeasonPart(folder_preview_list))

\* a scan of a root with an episode file of its own and a subdirectory
\* whose first and last episode files differ in their season
C11_Witness ==
    /\ lastScan.outcome = "ok"
    /\ Len(folder_preview_list) >= 2
    /\ \E i \in 1..Len(WalkFiles(lastScan.tree)) :
           /\ WalkFiles(lastScan.tree)[i].rel = <<>>
           /\ parse_tv(WalkFiles(lastScan.tree)[i].name) # None
    /\ \E d \in Subdirs(lastScan.tree) :
           LET at == EpisodesUnder(WalkFiles(lastScan.tree), d)
           IN  /\ at # {}
               /\ parse_tv(WalkFiles(lastScan.tree)[Min(at)].name)[1].season
                      # parse_tv(WalkFiles(lastScan.tree)[Max(at)].name)[1].season

\* C12: whenever rename_files attempts a rename, the lists it applies are
\* those of the latest scan_folder call, that call completed, it scanned
\* the folder the directory entry still names, and no rename_files call has
\* run since.
C12_StalePlanNeverApplied ==
    (Applied /\ lastApply.log # <<>>) => lastApply.fresh

====
